---- MODULE Spec2Model ----
(***************************************************************************)
(* A model of src/create_pdf.py: class AIProspectResearcher.               *)
(*                                                                         *)
(* Python strings are TLA+ strings (Len, SubSeq and \o act on them as on   *)
(* sequences of characters).  A Python value whose type matters is a       *)
(* tagged record: PyNone, PyStr(s), PyList(q), a Tag.  A dict is a record; *)
(* the empty dict {} is the empty function <<>>.                           *)
(***************************************************************************)
EXTENDS Integers, Sequences, FiniteSets, TLC

VARIABLES
    pc,               \* position of the caller: see Init and the actions
    summarizer,       \* self.summarizer
    soup,             \* the parsed page (BeautifulSoup), PyNone when there is none
    content,          \* content_data of the current research_prospect call
    additional_info,  \* additional_data of the current research_prospect call
    analysis,         \* analysis_data of the current call, PyNone when not built
    summarizerCalls,  \* texts the backend was called with during the current call
    reportCalls,      \* records generate_report was called with during the call
    document,         \* texts generate_report wrote into the document
    summary,          \* what generate_summary returned, PyNone when not called
    exc,              \* the exception that left the last operation, "none" if none
    env,              \* what the collaborators answered during the last operation
    ret               \* the last pure extractor call: [fn, args, value]

vars == <<pc, summarizer, soup, content, additional_info, analysis,
          summarizerCalls, reportCalls, document, summary, exc, env, ret>>

-----------------------------------------------------------------------------
(* Python values *)

PyNone == [type |-> "NoneType"]

PyStr(s) == [type |-> "str", v |-> s]

PyList(q) == [type |-> "list", v |-> q]

Tag(fields) == [type |-> "Tag", f |-> fields]

EmptyDict == <<>>

-----------------------------------------------------------------------------
(* str methods and the re module, as far as the program uses them *)

Char(s, i) == SubSeq(s, i, i)

UpperCase == "ABCDEFGHIJKLMNOPQRSTUVWXYZ"

LowerCase == "abcdefghijklmnopqrstuvwxyz"

\* the lower-case letter of every upper-case letter
LowerOf ==
    [c \in {Char(UpperCase, i) : i \in 1..Len(UpperCase)} |->
        Char(LowerCase, CHOOSE i \in 1..Len(UpperCase) : Char(UpperCase, i) = c)]

LowerChar(c) == IF c \in DOMAIN LowerOf THEN LowerOf[c] ELSE c

RECURSIVE lower(_)
lower(s) ==
    IF s = "" THEN "" ELSE LowerChar(Char(s, 1)) \o lower(SubSeq(s, 2, Len(s)))

\* Python's `sub in s`
Contains(sub, s) ==
    \E i \in 1..(Len(s) - Len(sub) + 1) : SubSeq(s, i, i + Len(sub) - 1) = sub

Whitespace == {" ", "\t", "\n", "\r", "\f"}

RECURSIVE lstrip(_)
lstrip(s) ==
    IF s # "" /\ Char(s, 1) \in Whitespace THEN lstrip(SubSeq(s, 2, Len(s))) ELSE s

RECURSIVE rstrip(_)
rstrip(s) ==
    IF s # "" /\ Char(s, Len(s)) \in Whitespace
    THEN rstrip(SubSeq(s, 1, Len(s) - 1))
    ELSE s

strip(s) == rstrip(lstrip(s))

RECURSIVE replace(_, _, _)
replace(s, old, new) ==
    IF Len(s) < Len(old) THEN s
    ELSE IF SubSeq(s, 1, Len(old)) = old
         THEN new \o replace(SubSeq(s, Len(old) + 1, Len(s)), old, new)
         ELSE Char(s, 1) \o replace(SubSeq(s, 2, Len(s)), old, new)

RECURSIVE join(_, _)
join(sep, q) ==
    IF q = <<>> THEN ""
    ELSE IF Len(q) = 1 THEN q[1]
    ELSE q[1] \o sep \o join(sep, Tail(q))

Digits == {"0", "1", "2", "3", "4", "5", "6", "7", "8", "9"}

\* the pattern (\d{4}) matches at position i of text
MatchesAt(text, i) ==
    /\ i + 3 <= Len(text)
    /\ \A k \in i..(i + 3) : Char(text, k) \in Digits

\* re.search(r'(\d{4})', text): the leftmost match (its group 0), or None
re_search(text) ==
    IF \E i \in 1..Len(text) : MatchesAt(text, i)
    THEN LET i == CHOOSE i \in 1..Len(text) :
                      MatchesAt(text, i) /\ \A j \in 1..(i - 1) : ~MatchesAt(text, j)
         IN  PyStr(SubSeq(text, i, i + 3))
    ELSE PyNone

-----------------------------------------------------------------------------
(* The markup model: what the program reads of a parsed page.              *)
(*   title : soup.title, PyNone or a Tag with its .string                  *)
(*   meta  : soup.find('meta', attrs={'name': 'description'}), PyNone or   *)
(*           a Tag with its attributes                                     *)
(*   p     : get_text() of every <p>, in document order                    *)
(*   a     : the href of every <a>, in document order, PyNone if absent    *)

find_all_p(s) == s.p

\* soup.find_all('a', href=re.compile(r'mailto')): the pattern is searched
\* anywhere in the attribute value; an <a> without href does not match
find_all_mailto(s) ==
    SelectSeq(s.a, LAMBDA href : href.type = "str" /\ Contains("mailto", href.v))

-----------------------------------------------------------------------------
(* Field extractors *)

\* the paragraph loop of extract_year_founded, from paragraph i on
RECURSIVE year_founded_from(_, _)
year_founded_from(paragraphs, i) ==
    IF i > Len(paragraphs) THEN "Not available"
    ELSE LET text  == lower(paragraphs[i])
             match == re_search(text)
         IN  IF Contains("founded", text) /\ match # PyNone
             THEN match.v
             ELSE year_founded_from(paragraphs, i + 1)

\* the same loop with a return on the first "founded" paragraph, match or not
RECURSIVE year_founded_first_hit(_, _)
year_founded_first_hit(paragraphs, i) ==
    IF i > Len(paragraphs) THEN "Not available"
    ELSE LET text  == lower(paragraphs[i])
             match == re_search(text)
         IN  IF Contains("founded", text)
             THEN (IF match # PyNone THEN match.v ELSE "Not available")
             ELSE year_founded_first_hit(paragraphs, i + 1)

extract_year_founded_first_hit(s) == PyStr(year_founded_first_hit(find_all_p(s), 1))

extract_year_founded(s) == PyStr(year_founded_from(find_all_p(s), 1))

\* any(keyword in text.lower() for keyword in keywords)
any_keyword(keywords, text) ==
    \E k \in 1..Len(keywords) : Contains(keywords[k], lower(text))

\* extract_keyword_sentences returning the list it built, empty or not
extract_keyword_sentences_no_sentinel(s, keywords) ==
    LET matching  == SelectSeq(find_all_p(s), LAMBDA text : any_keyword(keywords, text))
    IN  PyList([i \in 1..Len(matching) |-> strip(matching[i])])

extract_keyword_sentences(s, keywords) ==
    LET matching  == SelectSeq(find_all_p(s), LAMBDA text : any_keyword(keywords, text))
        sentences == [i \in 1..Len(matching) |-> strip(matching[i])]
    IN  PyList(IF sentences # <<>> THEN sentences ELSE <<"Not available">>)

extract_goals(s) == extract_keyword_sentences(s, <<"goal", "mission">>)

extract_objectives(s) == extract_keyword_sentences(s, <<"objective", "vision">>)

extract_innovations(s) == extract_keyword_sentences(s, <<"innovation", "new technology">>)

extract_contact_info(s) ==
    LET email_links  == find_all_mailto(s)
        contact_info == [i \in 1..Len(email_links) |->
                            strip(replace(email_links[i].v, "mailto:", ""))]
    IN  PyStr(IF contact_info # <<>> THEN join(", ", contact_info) ELSE "Not available")

-----------------------------------------------------------------------------
(* Inputs of the extractors *)

MaxParagraphs == 2

MaxAnchors == 2

ParagraphPool ==
    { "Founded with love.",
      "We were FOUNDED in 1998.",
      "founded near 10115 Berlin",
      " Our Mission: AI\n",
      "Since 2001 our goal" }

HrefPool ==
    { PyStr("mailto:a@x.com"),
      PyStr(" mailto:b@y.com "),
      PyStr("https://x.com/mailto-form"),
      PyStr("https://x.com"),
      PyNone }

KeywordLists ==
    { <<"ai", "1998">>, <<"Mission">>, <<>> }

SeqsUpTo(S, n) == UNION { [1..k -> S] : k \in 0..n }

NoTitle == PyNone

NoMeta == PyNone

Soups ==
    [ title : {NoTitle}, meta : {NoMeta},
      p : SeqsUpTo(ParagraphPool, MaxParagraphs),
      a : SeqsUpTo(HrefPool, MaxAnchors) ]

NoCall == [fn |-> "none"]

NotCalled == [called |-> FALSE]

NoEnv == [pipeline |-> "none", fetch |-> "none", backend |-> NotCalled, render |-> "none"]

-----------------------------------------------------------------------------
(* The extractors as pure functions of a parsed page *)

InitExtract ==
    /\ soup \in Soups
    /\ pc = "parsed"
    /\ summarizer = PyNone
    /\ content = EmptyDict
    /\ additional_info = EmptyDict
    /\ analysis = PyNone
    /\ summarizerCalls = <<>>
    /\ reportCalls = <<>>
    /\ document = <<>>
    /\ summary = PyNone
    /\ exc = "none"
    /\ env = NoEnv
    /\ ret = NoCall

Returns(fn, args, value) ==
    /\ pc = "parsed"
    /\ pc' = "returned"
    /\ ret' = [fn |-> fn, args |-> args, value |-> value]
    /\ UNCHANGED <<summarizer, soup, content, additional_info, analysis,
                   summarizerCalls, reportCalls, document, summary, exc, env>>

CallExtractYearFounded ==
    Returns("extract_year_founded", <<>>, extract_year_founded(soup))

CallExtractKeywordSentences ==
    \E keywords \in KeywordLists :
        Returns("extract_keyword_sentences", keywords,
                extract_keyword_sentences(soup, keywords))

CallExtractGoals == Returns("extract_goals", <<>>, extract_goals(soup))

CallExtractObjectives == Returns("extract_objectives", <<>>, extract_objectives(soup))

CallExtractInnovations == Returns("extract_innovations", <<>>, extract_innovations(soup))

CallExtractContactInfo == Returns("extract_contact_info", <<>>, extract_contact_info(soup))

NextExtract ==
    \/ CallExtractYearFounded
    \/ CallExtractKeywordSentences
    \/ CallExtractGoals
    \/ CallExtractObjectives
    \/ CallExtractInnovations
    \/ CallExtractContactInfo

SpecExtract == InitExtract /\ [][NextExtract]_vars

-----------------------------------------------------------------------------
(* Formatting of values, as f-strings and str.join do it *)

\* repr() of a list of strings
py_repr_list(q) == "[" \o join(", ", [i \in 1..Len(q) |-> "'" \o q[i] \o "'"]) \o "]"

\* str(v), what an f-string puts in place of {v}
format(v) ==
    CASE v.type = "str"      -> v.v
      [] v.type = "NoneType" -> "None"
      [] v.type = "list"     -> py_repr_list(v.v)

\* sep.join(v): over the elements of a list, over the characters of a str
py_join(sep, v) ==
    IF v.type = "list" THEN join(sep, v.v)
    ELSE join(sep, [i \in 1..Len(v.v) |-> Char(v.v, i)])

\* `v or default`: None and the empty string are falsy
py_or(v, default) ==
    IF v.type = "NoneType" \/ (v.type = "str" /\ v.v = "") THEN default ELSE v

-----------------------------------------------------------------------------
(* setup_ai_model *)

ThePipeline == [type |-> "Pipeline"]

Undefined == [type |-> "undefined"]

\* what pipeline("summarization", ...) does: returns, or raises one of these
PipelineOutcomes == {"ok", "ModuleNotFoundError", "OSError"}

\* setup_ai_model without the assignment in the handler
setup_ai_model_no_assignment(outcome) ==
    CASE outcome = "ok" -> [summarizer |-> ThePipeline, exc |-> "none"]
      [] outcome = "ModuleNotFoundError" -> [summarizer |-> Undefined, exc |-> "none"]
      [] OTHER -> [summarizer |-> Undefined, exc |-> outcome]

setup_ai_model(outcome) ==
    CASE outcome = "ok" -> [summarizer |-> ThePipeline, exc |-> "none"]
      [] outcome = "ModuleNotFoundError" -> [summarizer |-> PyNone, exc |-> "none"]
      [] OTHER -> [summarizer |-> Undefined, exc |-> outcome]

-----------------------------------------------------------------------------
(* scrape_website *)

\* what requests.get and raise_for_status do: return, or raise a RequestException
FetchOutcomes == {"ok", "ConnectionError", "HTTPError"}

extract_title(s) == IF s.title # PyNone THEN s.title.f.string ELSE PyStr("")

\* scrape_website answering a failed fetch with default fields
scrape_website_defaults(fetch, page) ==
    IF fetch # "ok"
    THEN [exc |-> "none",
          content |-> [title |-> PyStr(""), description |-> PyStr(""),
                       text |-> PyStr("")],
          additional_info |-> [year_founded |-> PyStr("Not available"),
                               goals |-> PyList(<<"Not available">>),
                               objectives |-> PyList(<<"Not available">>),
                               innovations |-> PyList(<<"Not available">>),
                               contact_info |-> PyStr("Not available")]]
    ELSE IF page.meta # PyNone /\ "content" \notin DOMAIN page.meta.f
    THEN [exc |-> "KeyError", content |-> EmptyDict, additional_info |-> EmptyDict]
    ELSE [exc |-> "none",
          content |->
             [title |-> extract_title(page),
              description |-> IF page.meta # PyNone THEN PyStr(page.meta.f.content)
                              ELSE PyStr(""),
              text |-> PyStr(join(" ", find_all_p(page)))],
          additional_info |->
             [year_founded |-> extract_year_founded(page),
              goals |-> extract_goals(page),
              objectives |-> extract_objectives(page),
              innovations |-> extract_innovations(page),
              contact_info |-> extract_contact_info(page)]]

scrape_website(fetch, page) ==
    IF fetch # "ok"
    THEN [exc |-> "none", content |-> EmptyDict, additional_info |-> EmptyDict]
    ELSE IF page.meta # PyNone /\ "content" \notin DOMAIN page.meta.f
    THEN [exc |-> "KeyError", content |-> EmptyDict, additional_info |-> EmptyDict]
    ELSE [exc |-> "none",
          content |->
             [title |-> extract_title(page),
              description |-> IF page.meta # PyNone THEN PyStr(page.meta.f.content)
                              ELSE PyStr(""),
              text |-> PyStr(join(" ", find_all_p(page)))],
          additional_info |->
             [year_founded |-> extract_year_founded(page),
              goals |-> extract_goals(page),
              objectives |-> extract_objectives(page),
              innovations |-> extract_innovations(page),
              contact_info |-> extract_contact_info(page)]]

-----------------------------------------------------------------------------
(* generate_summary *)

\* the f-string of generate_summary
build_prompt(c, info) ==
    "\n        Company Overview: " \o format(c.description)
    \o ". \n        Year Founded: " \o format(info.year_founded)
    \o ". \n        Goals: " \o py_join("; ", info.goals)
    \o ". \n        Objectives: " \o py_join("; ", info.objectives)
    \o ". \n        Innovations: " \o py_join("; ", info.innovations)
    \o ". \n        Contact Information: " \o format(info.contact_info)
    \o ".\n        "

\* what self.summarizer(prompt, max_length=200)[0]['summary_text'] does
BackendOutcomes ==
    { [called |-> TRUE, ok |-> TRUE, summary_text |-> "Acme builds AI tools."],
      [called |-> TRUE, ok |-> TRUE, summary_text |-> ""],
      [called |-> TRUE, ok |-> FALSE, error |-> "IndexError"] }

\* generate_summary without the `if not self.summarizer` guard: calling None
\* raises TypeError inside the try, and the handler returns the prompt
generate_summary_no_guard(self_summarizer, c, info, backend) ==
    LET prompt == build_prompt(c, info)
    IN  IF self_summarizer = PyNone
        THEN [value |-> PyStr(prompt), calls |-> <<>>]
        ELSE IF backend.ok
             THEN [value |-> PyStr(backend.summary_text), calls |-> <<prompt>>]
             ELSE [value |-> PyStr(prompt), calls |-> <<prompt>>]

\* generate_summary falling back to prompt.strip()
generate_summary_stripped_fallback(self_summarizer, c, info, backend) ==
    IF self_summarizer = PyNone
    THEN [value |-> PyStr("No summary available."), calls |-> <<>>]
    ELSE LET prompt == build_prompt(c, info)
         IN  IF backend.ok
             THEN [value |-> PyStr(backend.summary_text), calls |-> <<prompt>>]
             ELSE [value |-> PyStr(strip(prompt)), calls |-> <<prompt>>]

\* generate_summary handing the body text to the backend instead of the prompt
generate_summary_body_text(self_summarizer, c, info, backend) ==
    IF self_summarizer = PyNone
    THEN [value |-> PyStr("No summary available."), calls |-> <<>>]
    ELSE LET prompt == build_prompt(c, info)
         IN  IF backend.ok
             THEN [value |-> PyStr(backend.summary_text), calls |-> <<c.text.v>>]
             ELSE [value |-> PyStr(prompt), calls |-> <<c.text.v>>]

generate_summary(self_summarizer, c, info, backend) ==
    IF self_summarizer = PyNone
    THEN [value |-> PyStr("No summary available."), calls |-> <<>>]
    ELSE LET prompt == build_prompt(c, info)
         IN  IF backend.ok
             THEN [value |-> PyStr(backend.summary_text), calls |-> <<prompt>>]
             ELSE [value |-> PyStr(prompt), calls |-> <<prompt>>]

-----------------------------------------------------------------------------
(* generate_report *)

\* what FPDF does with the font file and the output path
RenderOutcomes == {"ok", "RuntimeError"}

\* the texts of the cells, in the order generate_report writes them
report_cells(a) ==
    << "Prospect Research: " \o format(a.company_name),
       "Summary:\n" \o format(a.summary),
       "Additional Information:",
       "Year Founded: " \o format(a.year_founded),
       "Goals:\n" \o py_join("; ", a.goals),
       "Objectives:\n" \o py_join("; ", a.objectives),
       "Innovations:\n" \o py_join("; ", a.innovations),
       "Contact Information: " \o format(a.contact_info) >>

\* generate_report formatting the sequences with the f-string alone, no join
generate_report_no_join(a, render) ==
    IF render = "ok"
    THEN [exc |-> "none",
          document |-> [report_cells(a) EXCEPT
                          ![5] = "Goals:\n" \o format(a.goals),
                          ![6] = "Objectives:\n" \o format(a.objectives),
                          ![7] = "Innovations:\n" \o format(a.innovations)]]
    ELSE [exc |-> render, document |-> <<>>]

generate_report(a, render) ==
    IF render = "ok"
    THEN [exc |-> "none", document |-> report_cells(a)]
    ELSE [exc |-> render, document |-> <<>>]

-----------------------------------------------------------------------------
(* research_prospect *)

research_prospect(self_summarizer, fetch, page, backend, render) ==
    LET scraped == scrape_website(fetch, page)
        failed  == [pc |-> "aborted", exc |-> "none", content |-> scraped.content,
                    additional_info |-> scraped.additional_info,
                    summary |-> PyNone, summarizerCalls |-> <<>>,
                    analysis |-> PyNone, reportCalls |-> <<>>, document |-> <<>>]
    IN  IF scraped.exc # "none"
        THEN [failed EXCEPT !.pc = "raised", !.exc = scraped.exc]
        ELSE IF scraped.content = EmptyDict \/ scraped.additional_info = EmptyDict
        THEN failed
        ELSE LET content_data    == scraped.content
                 additional_data == scraped.additional_info
                 s == generate_summary(self_summarizer, content_data,
                                       additional_data, backend)
                 analysis_data ==
                     [company_name |-> py_or(content_data.title, PyStr("Unknown Company")),
                      summary      |-> s.value,
                      year_founded |-> additional_data.year_founded,
                      goals        |-> additional_data.goals,
                      objectives   |-> additional_data.objectives,
                      innovations  |-> additional_data.innovations,
                      contact_info |-> additional_data.contact_info]
                 report == generate_report(analysis_data, render)
             IN  [pc |-> IF report.exc = "none" THEN "done" ELSE "raised",
                  exc |-> report.exc,
                  content |-> content_data,
                  additional_info |-> additional_data,
                  summary |-> s.value,
                  summarizerCalls |-> s.calls,
                  analysis |-> analysis_data,
                  reportCalls |-> <<analysis_data>>,
                  document |-> report.document]

-----------------------------------------------------------------------------
(* Pages the pipeline is run on *)

Titles ==
    { NoTitle, Tag([string |-> PyNone]), Tag([string |-> PyStr("Acme AI")]) }

Metas ==
    { NoMeta,
      Tag([attrs |-> {"name"}]),
      Tag([attrs |-> {"name", "content"}, content |-> "AI for industry"]) }

PageParagraphs ==
    { <<>>,
      <<"Hello">>,
      <<"We were founded 2005.", " Our goal is X ", "Our mission: Y">> }

PageAnchors ==
    { <<>>,
      <<PyStr("https://x.com")>>,
      <<PyStr("mailto:a@x.com"), PyStr("mailto:b@y.com")>> }

Pages == [title : Titles, meta : Metas, p : PageParagraphs, a : PageAnchors]

-----------------------------------------------------------------------------
(* The program (the __main__ block): construct the researcher, then call   *)
(* research_prospect on it once                                            *)

Init ==
    /\ pc = "start"
    /\ summarizer = Undefined
    /\ soup = PyNone
    /\ content = EmptyDict
    /\ additional_info = EmptyDict
    /\ analysis = PyNone
    /\ summarizerCalls = <<>>
    /\ reportCalls = <<>>
    /\ document = <<>>
    /\ summary = PyNone
    /\ exc = "none"
    /\ env = NoEnv
    /\ ret = NoCall

\* AIProspectResearcher(): __init__ calls setup_ai_model
Construct ==
    /\ pc = "start"
    /\ \E outcome \in PipelineOutcomes :
         LET r == setup_ai_model(outcome)
         IN  /\ summarizer' = r.summarizer
             /\ exc' = r.exc
             /\ pc' = IF r.exc = "none" THEN "ready" ELSE "raised"
             /\ env' = [env EXCEPT !.pipeline = outcome]
    /\ UNCHANGED <<soup, content, additional_info, analysis, summarizerCalls,
                   reportCalls, document, summary, ret>>

\* researcher.research_prospect(url, output_path)
ResearchProspect ==
    /\ pc = "ready"
    /\ \E fetch \in FetchOutcomes, page \in Pages,
          backend \in BackendOutcomes, render \in RenderOutcomes :
         \E r \in {research_prospect(summarizer, fetch, page, backend, render)} :
             /\ pc' = r.pc
             /\ exc' = r.exc
             /\ soup' = IF fetch = "ok" THEN page ELSE PyNone
             /\ content' = r.content
             /\ additional_info' = r.additional_info
             /\ summary' = r.summary
             /\ summarizerCalls' = r.summarizerCalls
             /\ analysis' = r.analysis
             /\ reportCalls' = r.reportCalls
             /\ document' = r.document
             /\ env' = [env EXCEPT
                          !.fetch = fetch,
                          !.backend = IF r.summarizerCalls # <<>> THEN backend
                                      ELSE NotCalled,
                          !.render = IF r.reportCalls # <<>> THEN render ELSE "none"]
    /\ UNCHANGED <<summarizer, ret>>

Next ==
    \/ Construct
    \/ ResearchProspect

Spec == Init /\ [][Next]_vars

-----------------------------------------------------------------------------
(* The Chunk Planner of the specification (section 4.2): fixed-size        *)
(* character windows, in order, the last possibly shorter                  *)

DefaultChunkSize == 500

chunk_text(text, chunk_size) ==
    [i \in 1..((Len(text) + chunk_size - 1) \div chunk_size) |->
        SubSeq(text, (i - 1) * chunk_size + 1,
               IF i * chunk_size < Len(text) THEN i * chunk_size ELSE Len(text))]

-----------------------------------------------------------------------------
(* Properties *)

Min(S) == CHOOSE x \in S : \A y \in S : x <= y

\* the number of elements of S up to i: the rank of i in S, for i in S
Rank(S, i) == Cardinality({j \in S : j <= i})

ReportKeys ==
    {"company_name", "summary", "year_founded", "goals", "objectives",
     "innovations", "contact_info"}

\* C1 as stated: with the summarizer unset, generate_summary returns the string
\* "Summarizer model is not available."
C1_SentinelAsStated ==
    (summarizer = PyNone /\ summary # PyNone)
        => summary = PyStr("Summarizer model is not available.")

\* C1, amended: with the summarizer unset, whenever scrape_website returned data,
\* generate_summary returns "No summary available." without calling the backend
\* and without raising, and research_prospect hands a complete record, holding
\* that summary, to generate_report.
C1_UnavailableSentinel ==
    (summarizer = PyNone /\ content # EmptyDict)
        => /\ summary = PyStr("No summary available.")
           /\ summarizerCalls = <<>>
           /\ exc \in {"none"} \cup (RenderOutcomes \ {"ok"})
           /\ analysis # PyNone
           /\ DOMAIN analysis = ReportKeys
           /\ analysis.summary = summary
           /\ reportCalls = <<analysis>>

C1_Witness ==
    /\ pc = "done"
    /\ summarizer = PyNone
    /\ reportCalls # <<>>
    /\ reportCalls[1].summary = PyStr("No summary available.")

\* C2: with a backend available, generate_summary calls it once; if the call
\* succeeds its summary text is returned, if it fails the prompt that was passed to
\* it is returned unmodified, and the failure does not leave generate_summary: the
\* record is still handed to generate_report.
C2_PromptFallback ==
    (summarizer = ThePipeline /\ summary # PyNone)
        => /\ Len(summarizerCalls) = 1
           /\ env.backend.called
           /\ env.backend.ok => summary = PyStr(env.backend.summary_text)
           /\ ~env.backend.ok => summary = PyStr(summarizerCalls[1])
           /\ exc \in {"none"} \cup (RenderOutcomes \ {"ok"})
           /\ reportCalls = <<analysis>>
           /\ analysis.summary = summary

C2_Witness ==
    /\ pc = "done"
    /\ summarizer = ThePipeline
    /\ ~env.backend.ok
    /\ summary = PyStr(summarizerCalls[1])
    /\ Len(summary.v) > 0

\* C3 as stated: whatever the failure of the backend's initialization, the
\* constructor completes without raising and the summarizer is None
C3_AnyFailureNonFatal ==
    (env.pipeline \notin {"none", "ok"})
        => /\ pc # "raised" \/ exc \notin PipelineOutcomes
           /\ summarizer = PyNone

\* C3, amended: a ModuleNotFoundError raised by the backend's initialization is
\* non-fatal: the constructor completes, the summarizer is None and a later
\* generate_summary returns the unavailable sentinel without calling the backend;
\* any other failure of the initialization leaves the constructor as an exception.
C3_ModuleNotFoundNonFatal ==
    /\ (env.pipeline = "ModuleNotFoundError")
          => /\ summarizer = PyNone
             /\ exc \notin PipelineOutcomes
             /\ pc = "ready" => exc = "none"
             /\ summary # PyNone
                   => (summary = PyStr("No summary available.") /\ summarizerCalls = <<>>)
    /\ (env.pipeline \notin {"none", "ok", "ModuleNotFoundError"})
          => /\ pc = "raised"
             /\ exc = env.pipeline
             /\ summary = PyNone

C3_Witness ==
    /\ env.pipeline = "ModuleNotFoundError"
    /\ summarizer = PyNone
    /\ summary = PyStr("No summary available.")

\* C4: when the fetch fails, scrape_website returns ({}, {}), research_prospect
\* returns at once, and neither generate_summary, the backend nor generate_report
\* is invoked, so no document is written; generate_report is invoked only in runs
\* whose fetch succeeded.
C4_FetchFailureAborts ==
    /\ (env.fetch \notin {"none", "ok"})
          => /\ content = EmptyDict
             /\ additional_info = EmptyDict
             /\ pc = "aborted"
             /\ exc = "none"
             /\ summary = PyNone
             /\ summarizerCalls = <<>>
             /\ analysis = PyNone
             /\ reportCalls = <<>>
             /\ document = <<>>
    /\ (reportCalls # <<>> \/ document # <<>>) => env.fetch = "ok"

C4_Witness ==
    /\ env.fetch = "HTTPError"
    /\ summarizer = ThePipeline
    /\ pc = "aborted"
    /\ reportCalls = <<>>

\* C8: for every page fetched, whatever is absent from it, scrape_website
\* completes with every field set (the sentinel where the markup is missing),
\* and company_name is the title if non-empty, else "Unknown Company"
C8_NeverRaisesForMissingMarkup ==
    (env.fetch = "ok")
        => /\ exc # "KeyError"
           /\ content # EmptyDict
           /\ additional_info # EmptyDict
           /\ soup.title = PyNone => content.title = PyStr("")
           /\ (soup.meta = PyNone \/ "content" \notin DOMAIN soup.meta.f)
                 => content.description = PyStr("")
           /\ soup.p = <<>>
                 => /\ additional_info.year_founded = PyStr("Not available")
                    /\ additional_info.goals = PyList(<<"Not available">>)
                    /\ additional_info.objectives = PyList(<<"Not available">>)
                    /\ additional_info.innovations = PyList(<<"Not available">>)
           /\ soup.a = <<>> => additional_info.contact_info = PyStr("Not available")
           /\ analysis # PyNone
           /\ analysis.company_name =
                 IF content.title.type = "str" /\ content.title.v # ""
                 THEN content.title
                 ELSE PyStr("Unknown Company")

\* C9 as stated: every field of the record handed to generate_report is a plain
\* string
C9_EveryFieldPlainString ==
    (reportCalls # <<>>)
        => \A k \in DOMAIN reportCalls[1] : reportCalls[1][k].type = "str"

\* C9, amended: in the record handed to generate_report, company name, summary,
\* year founded and contact info are plain strings, and goals, objectives and
\* innovations are non-empty sequences; generate_report flattens the three by
\* joining with "; ", so that every text written to the document is a string built
\* from the joined sequence.
C9_FlattenedInReport ==
    (reportCalls # <<>>)
        => LET a == reportCalls[1]
           IN  /\ DOMAIN a = ReportKeys
               /\ \A k \in {"company_name", "summary", "year_founded", "contact_info"} :
                     a[k].type = "str"
               /\ \A k \in {"goals", "objectives", "innovations"} :
                     a[k].type = "list" /\ a[k].v # <<>>
               /\ pc = "done"
                     => /\ Len(document) = 8
                        /\ document[5] = "Goals:\n" \o join("; ", a.goals.v)
                        /\ document[6] = "Objectives:\n" \o join("; ", a.objectives.v)
                        /\ document[7] = "Innovations:\n" \o join("; ", a.innovations.v)

C9_Witness ==
    /\ pc = "done"
    /\ reportCalls # <<>>
    /\ Len(reportCalls[1].goals.v) = 2
    /\ document[5] = "Goals:\nOur goal is X; Our mission: Y"

\* C10 as stated: the body text is summarized through the Chunk Planner: the
\* backend is given the ceil(L/C) chunks of the body text, one call each, in order
C10_BodySummarizedInChunks ==
    (summarizer = ThePipeline /\ summary # PyNone)
        => /\ summarizerCalls = chunk_text(content.text.v, DefaultChunkSize)
           /\ join("", summarizerCalls) = content.text.v

\* C10, amended: research_prospect does not summarize the body text and plans no
\* chunks: with a backend available, generate_summary makes exactly one backend
\* call, whose input is the single prompt built from description, year founded,
\* goals, objectives, innovations and contact info, the sequences joined with
\* "; "; the body text is not part of it.
C10_SinglePromptCall ==
    (summarizer = ThePipeline /\ summary # PyNone)
        => summarizerCalls =
             << "\n        Company Overview: " \o content.description.v
                \o ". \n        Year Founded: " \o additional_info.year_founded.v
                \o ". \n        Goals: " \o join("; ", additional_info.goals.v)
                \o ". \n        Objectives: " \o join("; ", additional_info.objectives.v)
                \o ". \n        Innovations: " \o join("; ", additional_info.innovations.v)
                \o ". \n        Contact Information: " \o additional_info.contact_info.v
                \o ".\n        " >>

C10_Witness ==
    /\ pc = "done"
    /\ summarizer = ThePipeline
    /\ Len(content.text.v) > 0
    /\ Len(summarizerCalls) = 1
    /\ ~Contains(content.text.v, summarizerCalls[1])

-----------------------------------------------------------------------------
(* Properties of the extractors *)

\* the paragraphs of the page whose lower-cased text contains "founded"
FoundedParagraphs == {i \in 1..Len(soup.p) : Contains("founded", lower(soup.p[i]))}

\* a run of exactly four digits starts at position i of text
ExactRunAt(text, i) ==
    /\ MatchesAt(text, i)
    /\ i = 1 \/ Char(text, i - 1) \notin Digits
    /\ i + 4 > Len(text) \/ Char(text, i + 4) \notin Digits

\* C5 as stated: only the first paragraph containing "founded" is examined; the
\* result is its first run of exactly four digits, "Not available" without one
C5_FirstFoundedParagraphOnly ==
    (ret.fn = "extract_year_founded")
        => IF FoundedParagraphs = {}
           THEN ret.value = PyStr("Not available")
           ELSE LET text == soup.p[Min(FoundedParagraphs)]
                    runs == {i \in 1..Len(text) : ExactRunAt(text, i)}
                IN  IF runs = {}
                    THEN ret.value = PyStr("Not available")
                    ELSE ret.value = PyStr(SubSeq(text, Min(runs), Min(runs) + 3))

\* C5, amended: extract_year_founded returns the first four consecutive digits
\* (which may begin a longer run of digits) of the first paragraph, in document
\* order, whose lower-cased text contains "founded" and holds four consecutive
\* digits; "Not available" if there is no such paragraph.  A paragraph containing
\* "founded" without four consecutive digits is passed over.
C5_FirstFoundedParagraphWithYear ==
    (ret.fn = "extract_year_founded")
        => LET dated == {i \in FoundedParagraphs :
                           \E j \in 1..Len(soup.p[i]) : MatchesAt(soup.p[i], j)}
           IN  IF dated = {}
               THEN ret.value = PyStr("Not available")
               ELSE LET text == soup.p[Min(dated)]
                        at   == Min({j \in 1..Len(text) : MatchesAt(text, j)})
                    IN  ret.value = PyStr(SubSeq(text, at, at + 3))

C5_Witness ==
    /\ ret.fn = "extract_year_founded"
    /\ soup.p = <<"Founded with love.", "We were FOUNDED in 1998.">>
    /\ ret.value = PyStr("1998")

\* the keywords of a call of a keyword extractor
KeywordsOf(call) ==
    CASE call.fn = "extract_keyword_sentences" -> call.args
      [] call.fn = "extract_goals"             -> <<"goal", "mission">>
      [] call.fn = "extract_objectives"        -> <<"objective", "vision">>
      [] call.fn = "extract_innovations"       -> <<"innovation", "new technology">>

KeywordCalls ==
    {"extract_keyword_sentences", "extract_goals", "extract_objectives",
     "extract_innovations"}

\* the paragraphs whose lower-cased text contains one of the keywords
KeywordParagraphs(keywords) ==
    {i \in 1..Len(soup.p) :
        \E k \in 1..Len(keywords) : Contains(keywords[k], lower(soup.p[i]))}

\* C6 as stated: the result is the full text of exactly the matching paragraphs,
\* in document order, and <<"Not available">> when none matches
C6_FullTextOfMatches ==
    (ret.fn \in KeywordCalls)
        => LET hits == KeywordParagraphs(KeywordsOf(ret))
           IN  /\ ret.value.type = "list"
               /\ ret.value.v # <<>>
               /\ hits = {} => ret.value.v = <<"Not available">>
               /\ hits # {}
                     => /\ Len(ret.value.v) = Cardinality(hits)
                        /\ \A i \in hits : ret.value.v[Rank(hits, i)] = soup.p[i]

\* C6, amended: the result is, in document order, the text with leading and
\* trailing whitespace removed of exactly the paragraphs whose lower-cased text
\* contains one of the keywords, and <<"Not available">> when none matches; it is
\* never the empty sequence.
C6_StrippedTextOfMatches ==
    (ret.fn \in KeywordCalls)
        => LET hits == KeywordParagraphs(KeywordsOf(ret))
           IN  /\ ret.value.type = "list"
               /\ ret.value.v # <<>>
               /\ hits = {} => ret.value.v = <<"Not available">>
               /\ hits # {}
                     => /\ Len(ret.value.v) = Cardinality(hits)
                        /\ \A i \in hits : ret.value.v[Rank(hits, i)] = strip(soup.p[i])

C6_Witness ==
    /\ ret.fn = "extract_goals"
    /\ soup.p = <<"Since 2001 our goal", " Our Mission: AI\n">>
    /\ ret.value = PyList(<<"Since 2001 our goal", "Our Mission: AI">>)

\* the anchors whose link target uses the mailto: scheme
MailtoAnchors ==
    {i \in 1..Len(soup.a) :
        /\ soup.a[i].type = "str"
        /\ SubSeq(strip(soup.a[i].v), 1, Len("mailto:")) = "mailto:"}

\* the target of anchor i without the scheme prefix and surrounding whitespace
AddressOf(i) ==
    LET target == strip(soup.a[i].v)
    IN  strip(SubSeq(target, Len("mailto:") + 1, Len(target)))

\* C7: the result is the addresses of exactly the anchors whose target uses the
\* mailto: scheme, scheme prefix and surrounding whitespace removed, joined with
\* ", " in document order; it is "Not available" if and only if there is none
C7_ExactlyMailtoAnchors ==
    (ret.fn = "extract_contact_info")
        => /\ ret.value.type = "str"
           /\ ret.value = PyStr("Not available") <=> MailtoAnchors = {}
           /\ MailtoAnchors # {}
                 => ret.value.v =
                       join(", ", [r \in 1..Cardinality(MailtoAnchors) |->
                                     AddressOf(CHOOSE i \in MailtoAnchors :
                                                  Rank(MailtoAnchors, i) = r)])

====
